---- MODULE Spec2Model ----
(***************************************************************************)
(* A model of src/dfa/core.py: the class DFA.                              *)
(*                                                                         *)
(* Python strings are modelled as sequences of one-character strings, so   *)
(* that str.split, the regular expression of __add_transition and the      *)
(* character-by-character scan of check_ownership are computed rather      *)
(* than assumed.  None is the value NoneVal.                               *)
(***************************************************************************)
EXTENDS Integers, Sequences, FiniteSets, TLC

VARIABLES
    ctor,                \* position of DFA.__init__: "new", "fields", "adding", "ready", "failed"
    err,                 \* the exception that ended __init__, or "none"
    states,              \* argument states, self.__states
    alphabet,            \* argument alphabet, self.__alphabet
    start_state,         \* argument start_state, self.__start_state
    accepted_states,     \* argument accepted_states, self.__accepted_states
    transitions,         \* local transitions of __make_transition_function
    k,                   \* index of the record the list comprehension of line 132 is at
    transition_function, \* local tf while it is built, then self.__transition_function
    current_state,       \* self.__current_state
    pc,                  \* per call of check_ownership: the line it is about to run
    string,              \* per call: argument string
    pos,                 \* per call: index in string of the symbol of the for loop
    status,              \* per call: local status
    nxt,                 \* per call: the value of tf.get(...) of line 143, not yet stored
    verdict,             \* per call: the value returned
    overlapped           \* per call, history: another call stored to current_state during it

vars == <<ctor, err, states, alphabet, start_state, accepted_states, transitions, k,
          transition_function, current_state, pc, string, pos, status, nxt, verdict,
          overlapped>>

defn == <<states, alphabet, start_state, accepted_states, transition_function>>
ctorVars == <<ctor, err, states, alphabet, start_state, accepted_states, transitions, k,
              transition_function>>
callVars == <<pc, string, pos, status, nxt, verdict, overlapped>>

-----------------------------------------------------------------------------
(* Bounds of the model.                                                    *)
MaxStates == 2      \* longest list of states passed to DFA(...)
MaxSymbols == 2     \* longest alphabet list
MaxAccepted == 2    \* longest list of accepted states
MaxRecords == 2     \* most records in a transition table
MaxInput == 2       \* longest string passed to check_ownership, sequential calls
MaxConcInput == 1   \* longest string passed to check_ownership, overlapping calls

Calls == {1, 2}

-----------------------------------------------------------------------------
(* Values.                                                                 *)
NoneVal == <<"None">>

Str1(ch) == <<ch>>

StateNames == {<<"p">>, <<"q">>}
SymbolNames == {<<"a">>}
InputChars == {"a", "c"}
WordChars == {"p", "q", "r", "a", "c"}

Range(s) == {s[i] : i \in DOMAIN s}

SeqsUpTo(S, n) == UNION {[1..m -> S] : m \in 0..n}

\* DFAStatus, lines 21-25
UNKNOWN_SYMBOL_ERROR == "UNKNOWN_SYMBOL_ERROR"
NO_TRANSITIONS == "NO_TRANSITIONS"
NOT_REACHED_FINAL_STATE == "NOT_REACHED_FINAL_STATE"
REACHED_FINAL_STATE == "REACHED_FINAL_STATE"

-----------------------------------------------------------------------------
(* str.split(sep) for a one-character separator: "".split(",") is [""].    *)
RECURSIVE split(_, _)
split(s, sep) ==
    IF \E i \in 1..Len(s) : s[i] = sep
    THEN LET i == CHOOSE j \in 1..Len(s) :
                      s[j] = sep /\ \A h \in 1..(j - 1) : s[h] # sep
         IN  <<SubSeq(s, 1, i - 1)>> \o split(SubSeq(s, i + 1, Len(s)), sep)
    ELSE <<s>>

\* sep.join(parts)
RECURSIVE join(_, _)
join(parts, sep) ==
    IF Len(parts) = 0 THEN <<>>
    ELSE IF Len(parts) = 1 THEN parts[1]
    ELSE parts[1] \o <<sep>> \o join(Tail(parts), sep)

\* re.findall(r"\w*-\w*-\w*", transition) is non-empty: some substring is
\* word characters, "-", word characters, "-", word characters; the outer
\* \w* may be empty, so it is: two "-" with only word characters between.
re_findall(transition) ==
    \E i, j \in 1..Len(transition) :
        /\ i < j
        /\ transition[i] = "-"
        /\ transition[j] = "-"
        /\ \A h \in (i + 1)..(j - 1) : transition[h] \in WordChars

\* uniqueness, lines 32-38
uniqueness(container) == Len(container) = Cardinality(Range(container))

\* A validation that tests the states before the alphabet.
data_valid_states_first(sts, alph, start, acc) ==
    IF ~uniqueness(sts) THEN "DuplicateState"
    ELSE IF ~uniqueness(alph) THEN "DuplicateSymbol"
    ELSE IF ~uniqueness(acc) THEN "DuplicateAcceptedWarning"
    ELSE IF start \notin Range(sts) THEN "UnknownStart"
    ELSE IF \E i \in DOMAIN acc : acc[i] \notin Range(sts) THEN "UnknownAccepted"
    ELSE "none"

\* A validation without the start-state test of lines 194-196.
data_valid_no_start(sts, alph, start, acc) ==
    IF ~uniqueness(alph) THEN "DuplicateSymbol"
    ELSE IF ~uniqueness(sts) THEN "DuplicateState"
    ELSE IF ~uniqueness(acc) THEN "DuplicateAcceptedWarning"
    ELSE IF \E i \in DOMAIN acc : acc[i] \notin Range(sts) THEN "UnknownAccepted"
    ELSE "none"

\* DFA.data_valid, lines 183-199: the exception it raises, or "none"
data_valid(sts, alph, start, acc) ==
    IF ~uniqueness(alph) THEN "DuplicateSymbol"
    ELSE IF ~uniqueness(sts) THEN "DuplicateState"
    ELSE IF ~uniqueness(acc) THEN "DuplicateAcceptedWarning"
    ELSE IF start \notin Range(sts) THEN "UnknownStart"
    ELSE IF \E i \in DOMAIN acc : acc[i] \notin Range(sts) THEN "UnknownAccepted"
    ELSE "none"

\* A validation without the test of the destination state.
transition_valid_no_next(state, symbol, next_state) ==
    IF state \notin Range(states) THEN "UnknownState"
    ELSE IF symbol \notin Range(alphabet) THEN "UnknownSymbol"
    ELSE "none"

\* DFA.__transition_valid, lines 83-94: the exception it raises, or "none"
transition_valid(state, symbol, next_state) ==
    IF state \notin Range(states) THEN "UnknownState"
    ELSE IF next_state \notin Range(states) THEN "UnknownState"
    ELSE IF symbol \notin Range(alphabet) THEN "UnknownSymbol"
    ELSE "none"

\* dict.get(key, None)
dict_get(d, key) == IF key \in DOMAIN d THEN d[key] ELSE NoneVal

\* d[key] = value
dict_set(d, key, value) ==
    [x \in (DOMAIN d) \cup {key} |-> IF x = key THEN value ELSE d[x]]

\* A registration in which the last record of a key wins.
add_transition_last_wins(tf, transition) ==
    IF ~re_findall(transition)
    THEN [err |-> "Malformed", tf |-> tf]
    ELSE LET fields == split(transition, "-") IN
         IF Len(fields) # 3
         THEN [err |-> "Unpack", tf |-> tf]
         ELSE LET v == transition_valid(fields[1], fields[2], fields[3]) IN
              IF v # "none" THEN [err |-> v, tf |-> tf]
              ELSE [err |-> "none", tf |-> dict_set(tf, <<fields[1], fields[2]>>, fields[3])]

\* DFA.__add_transition, lines 96-118, on the dictionary tf: the exception
\* it raises (or "none") and the dictionary afterwards.
add_transition(tf, transition) ==
    IF ~re_findall(transition)
    THEN [err |-> "Malformed", tf |-> tf]
    ELSE LET fields == split(transition, "-") IN
         IF Len(fields) # 3
         THEN [err |-> "Unpack", tf |-> tf]      \* line 105: ValueError of the unpacking
         ELSE LET state == fields[1]
                  symbol == fields[2]
                  next_state == fields[3]
                  v == transition_valid(state, symbol, next_state)
                  maybe_next_state == dict_get(tf, <<state, symbol>>)
              IN  IF v # "none" THEN [err |-> v, tf |-> tf]
                  ELSE IF maybe_next_state = NoneVal
                  THEN [err |-> "none", tf |-> dict_set(tf, <<state, symbol>>, next_state)]
                  ELSE IF maybe_next_state = next_state
                  THEN [err |-> "DuplicateTransitionWarning", tf |-> tf]
                  ELSE [err |-> "NonDeterministic", tf |-> tf]

-----------------------------------------------------------------------------
(* The inputs of the model.                                                *)
Record3(s, x, t) == join(<<s, x, t>>, "-")

RecordStrings ==
    {Record3(s, <<"a">>, t) : s \in StateNames, t \in StateNames}
    \cup { <<"r", "-", "a", "-", "p">>,          \* unknown source state
           <<"p", "-", "a", "-", "r">>,          \* unknown destination state
           <<"p", "-", "c", "-", "q">>,          \* unknown symbol
           <<>>,                                 \* empty record
           <<"p", "-", "a">>,                    \* two fields
           <<"p", "-", "a", "-", "q", "-", "p">>,\* four fields
           <<"p", "-", "-", "q">> }              \* empty symbol field

Tables == {join(rs, ",") : rs \in UNION {[1..m -> RecordStrings] : m \in 1..MaxRecords}}

-----------------------------------------------------------------------------
(* Construction.                                                           *)
Init ==
    /\ ctor = "new"
    /\ err = "none"
    /\ states = <<>>
    /\ alphabet = <<>>
    /\ start_state = NoneVal
    /\ accepted_states = <<>>
    /\ transitions = <<>>
    /\ k = 1
    /\ transition_function = <<>>
    /\ current_state = NoneVal
    /\ pc = [c \in Calls |-> "idle"]
    /\ string = [c \in Calls |-> <<>>]
    /\ pos = [c \in Calls |-> 1]
    /\ status = [c \in Calls |-> NoneVal]
    /\ nxt = [c \in Calls |-> NoneVal]
    /\ verdict = [c \in Calls |-> NoneVal]
    /\ overlapped = [c \in Calls |-> FALSE]

\* DFA.__init__, lines 47-56: data_valid, then the fields.  The argument
\* transition_table is not read before line 57.
DFA_init(sts, alph, start, acc) ==
    /\ ctor = "new"
    /\ states' = sts
    /\ alphabet' = alph
    /\ start_state' = start
    /\ accepted_states' = acc
    /\ err' = data_valid(sts, alph, start, acc)
    /\ ctor' = IF err' = "none" THEN "fields" ELSE "failed"
    /\ current_state' = NoneVal
    /\ UNCHANGED <<transitions, k, transition_function>>
    /\ UNCHANGED callVars

\* DFA.__make_transition_function, lines 126-130, called at line 57
make_transition_function(transition_table) ==
    /\ ctor = "fields"
    /\ transitions' = split(transition_table, ",")
    /\ transition_function' = <<>>
    /\ k' = 1
    /\ IF Len(transitions') = 0
       THEN ctor' = "failed" /\ err' = "EmptyTable"
       ELSE ctor' = "adding" /\ err' = "none"
    /\ UNCHANGED <<states, alphabet, start_state, accepted_states, current_state>>
    /\ UNCHANGED callVars

\* One element of the list comprehension of line 132; after the last one
\* line 134 returns tf and line 57 stores it.
add_transition_step ==
    /\ ctor = "adding"
    /\ k <= Len(transitions)
    /\ LET r == add_transition(transition_function, transitions[k]) IN
        /\ transition_function' = r.tf
        /\ err' = r.err
        /\ ctor' = IF r.err # "none" THEN "failed"
                   ELSE IF k = Len(transitions) THEN "ready" ELSE "adding"
        /\ k' = IF r.err # "none" THEN k ELSE k + 1
    /\ UNCHANGED <<states, alphabet, start_state, accepted_states, transitions,
                   current_state>>
    /\ UNCHANGED callVars

Construct ==
    \/ /\ ctor = "new"
       /\ \E sts \in SeqsUpTo(StateNames, MaxStates), alph \in SeqsUpTo(SymbolNames, MaxSymbols),
             start \in StateNames, acc \in SeqsUpTo(StateNames, MaxAccepted) :
             DFA_init(sts, alph, start, acc)
    \/ /\ ctor = "fields"
       /\ \E transition_table \in Tables : make_transition_function(transition_table)
    \/ add_transition_step

-----------------------------------------------------------------------------
(* Evaluation: check_ownership, lines 153-170, and __transition, lines     *)
(* 136-151.  A call is split at its reads and writes of                    *)
(* self.__current_state, the one field it shares with other calls.         *)
Running(c) == pc[c] \notin {"idle", "done"}

\* A scan without the alphabet test of line 140.
in_alphabet_no_test(symbol) == TRUE

\* line 140
in_alphabet(symbol) == symbol \in Range(alphabet)

\* An initial status that ignores the start state.
initial_status_not_reached == NOT_REACHED_FINAL_STATE

\* lines 158-159
initial_status ==
    IF start_state \in Range(accepted_states)
    THEN REACHED_FINAL_STATE ELSE NOT_REACHED_FINAL_STATE

\* A final status that tests the list of states, not of accepted states.
final_status_any_state(state) ==
    IF state \notin Range(states)
    THEN NOT_REACHED_FINAL_STATE ELSE REACHED_FINAL_STATE

\* lines 148-151
final_status(state) ==
    IF state \notin Range(accepted_states)
    THEN NOT_REACHED_FINAL_STATE ELSE REACHED_FINAL_STATE

\* lines 165-170: the value check_ownership returns
returned(st) == IF st # REACHED_FINAL_STATE THEN FALSE ELSE TRUE

\* The history variable after call c stores to self.__current_state.
Stored(c) == [d \in Calls |-> IF d # c /\ Running(d) THEN TRUE ELSE overlapped[d]]

\* A start state stored only while the field is still None.
start_store_if_none == IF current_state = NoneVal THEN start_state ELSE current_state

\* line 157: the value stored to self.__current_state
start_store == start_state

\* lines 157-160: the call, the store of the start state, the initial status
\* and the head of the for loop.
check_ownership_begin(c, s) ==
    /\ ctor = "ready"
    /\ pc[c] \in {"idle", "done"}
    /\ current_state' = start_store
    /\ string' = [string EXCEPT ![c] = s]
    /\ pos' = [pos EXCEPT ![c] = 1]
    /\ status' = [status EXCEPT ![c] = initial_status]
    /\ nxt' = [nxt EXCEPT ![c] = NoneVal]
    /\ verdict' = [verdict EXCEPT ![c] = NoneVal]
    /\ pc' = [pc EXCEPT ![c] = IF Len(s) = 0 THEN "l165" ELSE "l140"]
    /\ overlapped' = [Stored(c) EXCEPT ![c] = FALSE]
    /\ UNCHANGED ctorVars

\* A lookup that enters the missing key, as dict.setdefault(key, None) does.
transition_lookup_setdefault(c) ==
    /\ pc[c] = "l140"
    /\ LET symbol == Str1(string[c][pos[c]]) IN
       IF ~in_alphabet(symbol)
       THEN /\ status' = [status EXCEPT ![c] = UNKNOWN_SYMBOL_ERROR]
            /\ pc' = [pc EXCEPT ![c] = "l165"]
            /\ UNCHANGED <<nxt, transition_function>>
       ELSE /\ nxt' = [nxt EXCEPT ![c] = dict_get(transition_function, <<current_state, symbol>>)]
            /\ transition_function' =
                   IF <<current_state, symbol>> \in DOMAIN transition_function
                   THEN transition_function
                   ELSE dict_set(transition_function, <<current_state, symbol>>, NoneVal)
            /\ pc' = [pc EXCEPT ![c] = "l143"]
            /\ UNCHANGED status
    /\ UNCHANGED <<current_state, string, pos, verdict, overlapped>>
    /\ UNCHANGED <<ctor, err, states, alphabet, start_state, accepted_states, transitions, k>>

\* lines 140-143: the alphabet test, then the read of self.current_state and
\* the lookup of line 143 (its store is transition_store).
transition_lookup(c) ==
    /\ pc[c] = "l140"
    /\ LET symbol == Str1(string[c][pos[c]]) IN
       IF ~in_alphabet(symbol)
       THEN /\ status' = [status EXCEPT ![c] = UNKNOWN_SYMBOL_ERROR]
            /\ pc' = [pc EXCEPT ![c] = "l165"]      \* lines 162-163: break
            /\ UNCHANGED nxt
       ELSE /\ nxt' = [nxt EXCEPT ![c] = dict_get(transition_function, <<current_state, symbol>>)]
            /\ pc' = [pc EXCEPT ![c] = "l143"]
            /\ UNCHANGED status
    /\ UNCHANGED <<current_state, string, pos, verdict, overlapped>>
    /\ UNCHANGED ctorVars

\* A store that keeps the old state when the lookup found nothing.
transition_store_if_found(c) ==
    /\ pc[c] = "l143"
    /\ current_state' = IF nxt[c] = NoneVal THEN current_state ELSE nxt[c]
    /\ nxt' = [nxt EXCEPT ![c] = NoneVal]
    /\ pc' = [pc EXCEPT ![c] = "l145"]
    /\ overlapped' = Stored(c)
    /\ UNCHANGED <<string, pos, status, verdict>>
    /\ UNCHANGED ctorVars

\* line 143: the store to self.__current_state
transition_store(c) ==
    /\ pc[c] = "l143"
    /\ current_state' = nxt[c]
    /\ nxt' = [nxt EXCEPT ![c] = NoneVal]
    /\ pc' = [pc EXCEPT ![c] = "l145"]
    /\ overlapped' = Stored(c)
    /\ UNCHANGED <<string, pos, status, verdict>>
    /\ UNCHANGED ctorVars

\* A scan without the break of lines 162-163 after NO_TRANSITIONS.
transition_test_none_no_break(c) ==
    /\ pc[c] = "l145"
    /\ IF current_state = NoneVal
       THEN /\ status' = [status EXCEPT ![c] = NO_TRANSITIONS]
            /\ pos' = [pos EXCEPT ![c] = pos[c] + 1]
            /\ pc' = [pc EXCEPT ![c] = IF pos[c] + 1 > Len(string[c]) THEN "l165" ELSE "l140"]
       ELSE /\ pc' = [pc EXCEPT ![c] = "l148"]
            /\ UNCHANGED <<status, pos>>
    /\ UNCHANGED <<current_state, string, nxt, verdict, overlapped>>
    /\ UNCHANGED ctorVars

\* lines 145-146
transition_test_none(c) ==
    /\ pc[c] = "l145"
    /\ IF current_state = NoneVal
       THEN /\ status' = [status EXCEPT ![c] = NO_TRANSITIONS]
            /\ pc' = [pc EXCEPT ![c] = "l165"]      \* lines 162-163: break
       ELSE /\ pc' = [pc EXCEPT ![c] = "l148"]
            /\ UNCHANGED status
    /\ UNCHANGED <<current_state, string, pos, nxt, verdict, overlapped>>
    /\ UNCHANGED ctorVars

\* A loop that does not advance to the next symbol.
transition_test_accepted_same_symbol(c) ==
    /\ pc[c] = "l148"
    /\ status' = [status EXCEPT ![c] = final_status(current_state)]
    /\ pc' = [pc EXCEPT ![c] = "l140"]
    /\ UNCHANGED <<current_state, string, pos, nxt, verdict, overlapped>>
    /\ UNCHANGED ctorVars

\* lines 148-151, then lines 160-163: the next symbol, if any
transition_test_accepted(c) ==
    /\ pc[c] = "l148"
    /\ status' = [status EXCEPT ![c] = final_status(current_state)]
    /\ pos' = [pos EXCEPT ![c] = pos[c] + 1]
    /\ pc' = [pc EXCEPT ![c] = IF pos[c] + 1 > Len(string[c]) THEN "l165" ELSE "l140"]
    /\ UNCHANGED <<current_state, string, nxt, verdict, overlapped>>
    /\ UNCHANGED ctorVars

\* A return that discards the run state.
check_ownership_return_clears(c) ==
    /\ pc[c] = "l165"
    /\ verdict' = [verdict EXCEPT ![c] = returned(status[c])]
    /\ pc' = [pc EXCEPT ![c] = "done"]
    /\ current_state' = NoneVal
    /\ UNCHANGED <<string, pos, status, nxt, overlapped>>
    /\ UNCHANGED ctorVars

\* lines 165-170
check_ownership_return(c) ==
    /\ pc[c] = "l165"
    /\ verdict' = [verdict EXCEPT ![c] = returned(status[c])]
    /\ pc' = [pc EXCEPT ![c] = "done"]
    /\ UNCHANGED <<current_state, string, pos, status, nxt, overlapped>>
    /\ UNCHANGED ctorVars

Inputs(n) == SeqsUpTo(InputChars, n)

Step(c) ==
    \/ transition_lookup(c)
    \/ transition_store(c)
    \/ transition_test_none(c)
    \/ transition_test_accepted(c)
    \/ check_ownership_return(c)

\* The program as written: one call of check_ownership at a time.
SeqBegin ==
    /\ ctor = "ready"
    /\ \A d \in Calls : ~Running(d)
    /\ \E c \in Calls, s \in Inputs(MaxInput) : check_ownership_begin(c, s)

Next ==
    \/ Construct
    \/ SeqBegin
    \/ \E c \in Calls : Step(c)

Spec == Init /\ [][Next]_vars

\* A call that has started keeps running: Python runs it to its return.
FairSpec == Spec /\ \A c \in Calls : WF_vars(Step(c))

\* Two threads calling check_ownership on one DFA object, each once.
ConcBegin ==
    /\ ctor = "ready"
    /\ \E c \in Calls :
        /\ pc[c] = "idle"
        /\ \E s \in Inputs(MaxConcInput) : check_ownership_begin(c, s)

ConcNext ==
    \/ Construct
    \/ ConcBegin
    \/ \E c \in Calls : Step(c)

ConcSpec == Init /\ [][ConcNext]_vars

-----------------------------------------------------------------------------
(* What the automaton defines, stated without the scan's variables.        *)
Built == ctor = "ready"

\* The state the automaton is in after the whole of w, from state q; NoneVal
\* when a symbol of w is not in the alphabet or a transition is missing.
RECURSIVE Run(_, _)
Run(q, w) ==
    IF w = <<>> THEN q
    ELSE LET x == Str1(Head(w)) IN
         IF x \notin Range(alphabet) \/ <<q, x>> \notin DOMAIN transition_function
         THEN NoneVal
         ELSE Run(transition_function[<<q, x>>], Tail(w))

Accepts(w) == Run(start_state, w) \in Range(accepted_states)

HasUnknown(w) == \E i \in 1..Len(w) : Str1(w[i]) \notin Range(alphabet)

FirstUnknown(w) ==
    CHOOSE i \in 1..Len(w) :
        /\ Str1(w[i]) \notin Range(alphabet)
        /\ \A j \in 1..(i - 1) : Str1(w[j]) \in Range(alphabet)

Stopped(c) == status[c] \in {UNKNOWN_SYMBOL_ERROR, NO_TRANSITIONS}

\* The state a scan of w from q stops in: unchanged by a symbol outside the
\* alphabet, NoneVal after a missing transition.
RECURSIVE Left(_, _)
Left(q, w) ==
    IF w = <<>> THEN q
    ELSE LET x == Str1(Head(w)) IN
         IF x \notin Range(alphabet) THEN q
         ELSE IF <<q, x>> \notin DOMAIN transition_function THEN NoneVal
         ELSE Left(transition_function[<<q, x>>], Tail(w))

-----------------------------------------------------------------------------
\* C1: a call of check_ownership that has returned, returned True exactly
\* when its last status is REACHED_FINAL_STATE, which is exactly when every
\* symbol of the string is in the alphabet, every step from the start state
\* has a transition and the state after the last symbol is accepted.
C1_VerdictIffAccepts ==
    \A c \in Calls :
        pc[c] = "done" =>
            /\ verdict[c] \in BOOLEAN
            /\ verdict[c] <=> (status[c] = REACHED_FINAL_STATE)
            /\ verdict[c] <=> Accepts(string[c])

C1_Witness ==
    \E c \in Calls :
        /\ pc[c] = "done"
        /\ Len(string[c]) = 2
        /\ verdict[c] = TRUE
        /\ start_state \notin Range(accepted_states)

\* C2: on the empty string the status before any symbol is consumed is
\* REACHED_FINAL_STATE when the start state is accepted and
\* NOT_REACHED_FINAL_STATE otherwise, and the call returns True exactly when
\* the start state is accepted.
C2_EmptyInput ==
    \A c \in Calls :
        /\ (pc[c] \in {"l140", "l143", "l145", "l148"} /\ pos[c] = 1) \/ (Running(c) /\ string[c] = <<>>)
             => status[c] = (IF start_state \in Range(accepted_states)
                             THEN REACHED_FINAL_STATE ELSE NOT_REACHED_FINAL_STATE)
        /\ (pc[c] = "done" /\ string[c] = <<>>)
             => (verdict[c] <=> start_state \in Range(accepted_states))

C2_Witness ==
    \E c \in Calls : pc[c] = "done" /\ string[c] = <<>> /\ verdict[c] = TRUE

\* C3 as stated: a returned call whose string holds a symbol outside the
\* alphabet ended with status UNKNOWN_SYMBOL_ERROR and returned False.
C3_UnknownSymbolAlways ==
    \A c \in Calls :
        (pc[c] = "done" /\ HasUnknown(string[c])) =>
            status[c] = UNKNOWN_SYMBOL_ERROR /\ verdict[c] = FALSE

\* C3 amended: a returned call whose string holds a symbol outside the
\* alphabet returned False; its status is NO_TRANSITIONS when a symbol before
\* the first such symbol had no transition, and UNKNOWN_SYMBOL_ERROR otherwise.
C3_UnknownSymbolRejected ==
    \A c \in Calls :
        (pc[c] = "done" /\ HasUnknown(string[c])) =>
            /\ verdict[c] = FALSE
            /\ status[c] =
                 (IF Run(start_state, SubSeq(string[c], 1, FirstUnknown(string[c]) - 1)) = NoneVal
                  THEN NO_TRANSITIONS ELSE UNKNOWN_SYMBOL_ERROR)

C3_Witness ==
    \E c \in Calls :
        /\ pc[c] = "done"
        /\ Len(string[c]) = 2
        /\ Str1(string[c][1]) \in Range(alphabet)
        /\ Str1(string[c][2]) \notin Range(alphabet)
        /\ status[c] = UNKNOWN_SYMBOL_ERROR

\* C4: once the status of a running call is UNKNOWN_SYMBOL_ERROR or
\* NO_TRANSITIONS, the call consumes no further symbol, its status and the
\* current state do not change, and it returns False.
C4_StopIsFinal ==
    [][\A c \in Calls :
          (Running(c) /\ Stopped(c)) =>
              /\ status'[c] = status[c]
              /\ pos'[c] = pos[c]
              /\ current_state' = current_state
              /\ pc'[c] \in {"l165", "done"}
              /\ pc'[c] = "done" => verdict'[c] = FALSE]_vars

C4_Witness ==
    \E c \in Calls :
        /\ pc[c] = "done"
        /\ status[c] = NO_TRANSITIONS
        /\ pos[c] < Len(string[c])
        /\ verdict[c] = FALSE

C6_SameStringSameVerdict ==
    \A c, d \in Calls :
        (pc[c] = "done" /\ pc[d] = "done" /\ string[c] = string[d]) => verdict[c] = verdict[d]

C6_Witness ==
    /\ \A c \in Calls : pc[c] = "done" /\ verdict[c] = TRUE /\ Len(string[c]) = 1
    /\ string[1] = string[2]
    /\ current_state # start_state

\* C7: a call that has started returns a verdict, and it never consumes more
\* symbols than its string has.
C7_Terminates ==
    /\ \A c \in Calls : Running(c) ~> (pc[c] = "done" /\ verdict[c] \in BOOLEAN)
    /\ [](\A c \in Calls : pos[c] <= Len(string[c]) + 1)

C7_Witness ==
    \E c \in Calls : pc[c] = "done" /\ Len(string[c]) = 2 /\ pos[c] = 3

\* C8: once construction has finished, no step changes the states, the
\* alphabet, the start state, the accepted states or the transition function.
C8_DefinitionUnchanged ==
    [][Built => (Built' /\ UNCHANGED defn)]_vars

C8_Witness ==
    \E c \in Calls : pc[c] = "done" /\ status[c] = NO_TRANSITIONS

C10_Structure ==
    Built =>
        /\ \A i, j \in DOMAIN alphabet : i # j => alphabet[i] # alphabet[j]
        /\ \A i, j \in DOMAIN states : i # j => states[i] # states[j]
        /\ start_state \in Range(states)
        /\ Range(accepted_states) \subseteq Range(states)
        /\ \A key \in DOMAIN transition_function :
              /\ key[1] \in Range(states)
              /\ key[2] \in Range(alphabet)
              /\ transition_function[key] \in Range(states)
        /\ \A i \in DOMAIN transitions :
              LET f == split(transitions[i], "-") IN
                  /\ Len(f) = 3
                  /\ <<f[1], f[2]>> \in DOMAIN transition_function
                  /\ transition_function[<<f[1], f[2]>>] = f[3]

C10_Witness ==
    Built /\ Cardinality(DOMAIN transition_function) = 2 /\ Len(accepted_states) = 2

-----------------------------------------------------------------------------
(* The records of the table under construction.                            *)
Fields(i) == split(transitions[i], "-")

\* Construction ended with an exception of __add_transition, at record k.
FailedAtRecord == ctor = "failed" /\ k \in DOMAIN transitions

\* Record i has three fields, and an earlier record has its source and
\* symbol with another destination.
Conflict(i) ==
    /\ Len(Fields(i)) = 3
    /\ \E j \in 1..(i - 1) :
          /\ Len(Fields(j)) = 3
          /\ Fields(j)[1] = Fields(i)[1]
          /\ Fields(j)[2] = Fields(i)[2]
          /\ Fields(j)[3] # Fields(i)[3]

\* No record before the one construction is at conflicts with an earlier one.
NoConflictPassed ==
    ctor \in {"adding", "ready"} => \A i \in 1..(k - 1) : ~Conflict(i)

\* C11 as stated: a record whose source and symbol an earlier record
\* registered with another destination ends construction with the
\* non-determinism error, and no automaton is produced.
C11_ConflictIsNonDeterministic ==
    /\ NoConflictPassed
    /\ (FailedAtRecord /\ Conflict(k)) => err = "NonDeterministic"

\* C11 amended: a record whose destination is a declared state and whose
\* source and symbol an earlier record registered with another destination
\* ends construction with the non-determinism error, the registered entry
\* kept; a record with such a key never passes.
C11_DeclaredConflictIsNonDeterministic ==
    /\ NoConflictPassed
    /\ (FailedAtRecord /\ Conflict(k) /\ Fields(k)[3] \in Range(states)) =>
          /\ err = "NonDeterministic"
          /\ <<Fields(k)[1], Fields(k)[2]>> \in DOMAIN transition_function
          /\ transition_function[<<Fields(k)[1], Fields(k)[2]>>] # Fields(k)[3]

C11_Witness ==
    /\ FailedAtRecord
    /\ k = 2
    /\ transitions = << <<"p", "-", "a", "-", "q">>, <<"p", "-", "a", "-", "p">> >>
    /\ err = "NonDeterministic"

\* Record i has three fields and repeats an earlier record's source, symbol
\* and destination.
Repeat(i) ==
    /\ Len(Fields(i)) = 3
    /\ \E j \in 1..(i - 1) : Fields(j) = Fields(i)

\* C12: a record that repeats an earlier record's source, symbol and
\* destination does not end construction.
C12_RepeatIsNotFatal ==
    ~(FailedAtRecord /\ Repeat(k))

-----------------------------------------------------------------------------
(* The arguments of DFA(...), once __init__ has been called.               *)
Called == ctor # "new"

NoDuplicate(list) == \A i, j \in DOMAIN list : i # j => list[i] # list[j]

\* Construction ended with an exception of data_valid.
FailedInDataValid == ctor = "failed" /\ transitions = <<>>

\* C13: when the alphabet and the states have no duplicates and the start
\* state and the accepted states are declared states, a repeated accepted
\* state does not end construction.
C13_RepeatedAcceptedIsNotFatal ==
    ( /\ Called
      /\ NoDuplicate(alphabet)
      /\ NoDuplicate(states)
      /\ start_state \in Range(states)
      /\ Range(accepted_states) \subseteq Range(states)
      /\ ~NoDuplicate(accepted_states) )
    => ~FailedInDataValid

-----------------------------------------------------------------------------
\* The table passed to DFA(...) was the empty string: its split is [""].
EmptyTableGiven == transitions = << <<>> >>

\* C15: construction with an empty transition table ends with the
\* empty-table error, which is not the malformed-record error, and produces
\* no automaton.
C15_EmptyTableError ==
    EmptyTableGiven =>
        /\ ctor # "ready"
        /\ ctor = "failed" => err = "EmptyTable"

\* Record i splits on "-" into exactly three fields, none of them empty.
ThreeFields(i) ==
    /\ Len(Fields(i)) = 3
    /\ \A n \in 1..3 : Fields(i)[n] # <<>>

\* C16: a record that does not split on "-" into exactly three non-empty
\* fields ends construction with the malformed-transition error, and no such
\* record passes.
C16_MalformedRecordError ==
    /\ ctor \in {"adding", "ready"} => \A i \in 1..(k - 1) : ThreeFields(i)
    /\ (FailedAtRecord /\ ~ThreeFields(k)) => err = "Malformed"

-----------------------------------------------------------------------------
\* The first check of data_valid that the arguments fail, in the order of
\* lines 188-199, or "none".
FirstDataFailure ==
    IF ~NoDuplicate(alphabet) THEN "DuplicateSymbol"
    ELSE IF ~NoDuplicate(states) THEN "DuplicateState"
    ELSE IF ~NoDuplicate(accepted_states) THEN "DuplicateAcceptedWarning"
    ELSE IF start_state \notin Range(states) THEN "UnknownStart"
    ELSE IF ~(Range(accepted_states) \subseteq Range(states)) THEN "UnknownAccepted"
    ELSE "none"

\* C18: construction ends at the first failing check, in the order alphabet
\* uniqueness, state uniqueness, accepted-state uniqueness, start-state
\* membership, accepted-state membership, then the records from left to
\* right: a failing data check leaves no record parsed; at a failing record
\* exactly the records before it are registered; and nothing happens after
\* the failure.
C18_FirstFailureWins ==
    /\ [](Called =>
            /\ FirstDataFailure # "none" =>
                  /\ FailedInDataValid
                  /\ err = FirstDataFailure
                  /\ transition_function = <<>>
            /\ FirstDataFailure = "none" => ~FailedInDataValid
            /\ FailedAtRecord =>
                  /\ err \notin {"none", "DuplicateSymbol", "DuplicateState",
                                 "DuplicateAcceptedWarning", "UnknownStart", "UnknownAccepted"}
                  /\ DOMAIN transition_function =
                         {<<Fields(i)[1], Fields(i)[2]>> : i \in 1..(k - 1)}
                  /\ \A i \in 1..(k - 1) :
                         transition_function[<<Fields(i)[1], Fields(i)[2]>>] = Fields(i)[3])
    /\ [][ctor = "failed" => UNCHANGED vars]_vars

C18_Witness ==
    /\ FailedAtRecord
    /\ k = 1
    /\ Len(transitions) = 2
    /\ ThreeFields(2)
    /\ transition_function = <<>>

\* C19: while the records are processed the transition function only grows:
\* a registered key keeps its destination, and a record either adds exactly
\* one new key, with the record's destination, or leaves it unchanged.
C19_TableOnlyGrows ==
    [][ctor = "adding" =>
          /\ \A key \in DOMAIN transition_function :
                /\ key \in DOMAIN transition_function'
                /\ transition_function'[key] = transition_function[key]
          /\ \/ UNCHANGED transition_function
             \/ /\ Len(Fields(k)) = 3
                /\ <<Fields(k)[1], Fields(k)[2]>> \notin DOMAIN transition_function
                /\ DOMAIN transition_function' =
                       (DOMAIN transition_function) \cup {<<Fields(k)[1], Fields(k)[2]>>}
                /\ transition_function'[<<Fields(k)[1], Fields(k)[2]>>] = Fields(k)[3]
      ]_vars

C19_Witness ==
    /\ ctor = "adding"
    /\ k = 2
    /\ Cardinality(DOMAIN transition_function) = 1
    /\ Len(transitions) = 2
    /\ Len(Fields(2)) = 3
    /\ <<Fields(2)[1], Fields(2)[2]>> \in DOMAIN transition_function

\* C20: with calls one at a time, the status and the stored current state
\* agree at every step: a call starts by storing the start state; a step on
\* a symbol outside the alphabet sets UNKNOWN_SYMBOL_ERROR and leaves the
\* current state; a step without a transition sets NO_TRANSITIONS and leaves
\* the current state None; after any other step the current state is the
\* target of the transition and the status is REACHED_FINAL_STATE exactly
\* when that state is accepted.
C20_StatusAgreesWithState ==
    [][\A c \in Calls :
          /\ (~Running(c) /\ Running(c)') => current_state' = start_state
          /\ (pc[c] = "l140" /\ pc'[c] = "l165") =>
                /\ status'[c] = UNKNOWN_SYMBOL_ERROR
                /\ current_state' = current_state
          /\ (pc[c] = "l145" /\ pc'[c] = "l165") =>
                /\ status'[c] = NO_TRANSITIONS
                /\ current_state' = NoneVal
                /\ Run(start_state, SubSeq(string[c], 1, pos[c])) = NoneVal
          /\ (pc[c] = "l148" /\ pc'[c] # "l148") =>
                /\ current_state' = Run(start_state, SubSeq(string[c], 1, pos[c]))
                /\ current_state' \in Range(states)
                /\ status'[c] = REACHED_FINAL_STATE
                       <=> current_state' \in Range(accepted_states)
                /\ status'[c] \in {REACHED_FINAL_STATE, NOT_REACHED_FINAL_STATE}
      ]_vars

C20_Witness ==
    \E c \in Calls :
        /\ pc[c] = "l165"
        /\ pos[c] = 2
        /\ status[c] = NO_TRANSITIONS
        /\ current_state = NoneVal

====
